---- MODULE Spec2Model ----
(***************************************************************************)
(* float-view-renderer: a telemetry log (Float Control CSV / ZIP, Floaty   *)
(* JSON) is decoded into DataPoints, every DataPoint is drawn into one      *)
(* frame (two dial gauges and three label/value lists) and the frame is     *)
(* written round(min(duration, max_gap) * rate) times to the standard       *)
(* input of an ffmpeg subprocess.                                            *)
(*                                                                           *)
(* Numbers.  Seconds are kept in fixed point, as an integer number of        *)
(* milliseconds; f32 metric values are records [nan, val] with val in        *)
(* 1/10000 of the unit.  Option<T> is a record [some, val].                  *)
(***************************************************************************)
EXTENDS Integers, Sequences, FiniteSets, TLC

\* the largest number of records in an input file
MaxSamples == 3

\* src/main.rs:18-19
WIDTH == 400
HEIGHT == 960

VARIABLES
    args,        \* cli::Args: the input file, max_gap_seconds, rate, cell_count
    pc,          \* position of main()
    data,        \* Vec<DataPoint> returned by input::parse
    idx,         \* position of `for point in data.iter()` (0-based)
    num_frames,  \* the loop's num_frames for the current point
    written,     \* iterations of `for _ in 0..num_frames` already done
    texture,     \* the render target render_frame draws into
    canvas,      \* the window canvas the texture is copied to
    pixel_data,  \* the buffer read back from the canvas
    stream,      \* what has been written to ffmpeg's stdin, oldest first
    ops,         \* the renders, read-backs and writes done so far, in order
    log,         \* stderr: the indices of the frames reported as failed
    ffmpeg,      \* the encoder subprocess: "none", "running", "reaped"
    exit_status, \* the status the encoder exited with (-1: not known)
    stdin_open,  \* whether this process holds ffmpeg's stdin open
    result,      \* what main() returned: "none" (running), "ok", "err"
    error,       \* the cause main() returned in Err ("": none)
    gauge,       \* a Speedo and the position it is asked to show
    geometry,    \* what Speedo::render made of it
    pipe,        \* chunks of frame data in the pipe to ffmpeg, not yet consumed
    sent,        \* chunks of the current frame write_all has put in the pipe
    argv         \* the command line the program was started with

vars == <<args, pc, data, idx, num_frames, written, texture, canvas,
          pixel_data, stream, ops, log, ffmpeg, exit_status, stdin_open,
          result, error, gauge, geometry, pipe, sent, argv>>

\* the locals of main
main_vars == <<args, pc, data, idx, num_frames, written, texture, canvas,
               pixel_data, stream, ops, log, ffmpeg, exit_status, stdin_open,
               result, error>>

\* the command line, the gauge laid out on its own, the pipe to the encoder
aux == <<gauge, geometry, pipe, sent, argv>>

----------------------------------------------------------------------------
(* Values *)

F(v) == [nan |-> FALSE, val |-> v]
NaN == [nan |-> TRUE, val |-> 0]
Some(v) == [some |-> TRUE, val |-> v]
None == [some |-> FALSE, val |-> 0]

Min(a, b) == IF a <= b THEN a ELSE b

\* f32::round: to the nearest integer, halves away from zero; n / d with d > 0
Round(n, d) ==
    IF n >= 0 THEN (2 * n + d) \div (2 * d)
    ELSE -((2 * (-n) + d) \div (2 * d))

\* `as usize` of a float: saturating, a negative value becomes 0
AsUsize(x) == IF x < 0 THEN 0 ELSE x

----------------------------------------------------------------------------
(* input.rs: the two decoders *)

\* mph * 1.60934 in 1/10000 fixed point, the product taken in two parts to
\* stay within 32 bits
MulMilesToKm(v) ==
    ((v \div 1000) * 160934) \div 100 + ((v % 1000) * 160934) \div 100000

\* a speed_kmh that takes the mph column as it is
speed_unconverted(rec) ==
    IF rec.speed_kmh.some THEN F(rec.speed_kmh.val)
    ELSE IF rec.speed_mph.some THEN F(rec.speed_mph.val)
    ELSE NaN

\* FloatControlCsv::speed_kmh: km/h when present, else mph * 1.60934, else NaN
speed_kmh(rec) ==
    IF rec.speed_kmh.some THEN F(rec.speed_kmh.val)
    ELSE IF rec.speed_mph.some THEN F(MulMilesToKm(rec.speed_mph.val))
    ELSE NaN

\* FloatControlCsv::to_data_point
FcToDataPoint(rec, prev_time) ==
    [ duration        |-> rec.time_seconds - prev_time,
      speed           |-> speed_kmh(rec),
      duty_cycle      |-> IF rec.duty_cycle.some THEN F(rec.duty_cycle.val) ELSE NaN,
      motor_current   |-> F(rec.current_motor),
      field_weakening |-> rec.current_field_weakening,
      temp_motor      |-> F(rec.temp_motor),
      temp_mosfet     |-> F(rec.temp_mosfet),
      temp_battery    |-> Some(rec.temp_battery),
      batt_voltage    |-> F(rec.voltage),
      batt_current    |-> F(rec.current_battery) ]

\* the deserialize loop of parse_float_control: every record is pushed with
\* `data.last().map(|dp| dp.duration).unwrap_or(0.0)` as its prev_time
RECURSIVE FcPush(_, _)
FcPush(records, n) ==
    IF n = 0 THEN <<>>
    ELSE LET d == FcPush(records, n - 1)
             prev == IF Len(d) = 0 THEN 0 ELSE d[Len(d)].duration
         IN  Append(d, FcToDataPoint(records[n], prev))

\* the battery-temperature pass of parse_float_control
has_battery_temps(d) ==
    \E k \in 1..Len(d) : d[k].temp_battery.some /\ d[k].temp_battery.val # 0

parse_float_control(records) ==
    LET d == FcPush(records, Len(records))
    IN  IF has_battery_temps(d) THEN d
        ELSE [k \in 1..Len(d) |-> [d[k] EXCEPT !.temp_battery = None]]

\* u64 subtraction; the inputs drawn below keep timestamp >= start_time, where
\* it neither panics nor wraps
U64Sub(a, b) == a - b

\* FloatyLog::to_data_point: (timestamp - start_time) as f32 / 1000.0, the
\* timestamps being milliseconds; in millisecond fixed point the quotient in
\* seconds is the difference itself
FloatyToDataPoint(rec, start_time) ==
    [ duration        |-> (U64Sub(rec.timestamp, start_time) * 1000) \div 1000,
      speed           |-> IF rec.speed.some THEN F(rec.speed.val) ELSE NaN,
      duty_cycle      |-> IF rec.duty_cycle.some THEN F(rec.duty_cycle.val) ELSE NaN,
      motor_current   |-> IF rec.motor_current.some THEN F(rec.motor_current.val) ELSE NaN,
      field_weakening |-> None,
      temp_motor      |-> F(rec.motor_temp),
      temp_mosfet     |-> F(rec.controller_temp),
      temp_battery    |-> None,
      batt_voltage    |-> IF rec.battery_volts.some THEN F(rec.battery_volts.val) ELSE NaN,
      batt_current    |-> IF rec.battery_current.some THEN F(rec.battery_current.val) ELSE NaN ]

parse_floaty(json) ==
    [k \in 1..Len(json.logs) |-> FloatyToDataPoint(json.logs[k], json.start_time)]

\* input::parse: dispatch on the file name; [ok, data]
ParseErr == [ok |-> FALSE, data |-> <<>>]
ParseOk(d) == [ok |-> TRUE, data |-> d]

parse(file) ==
    IF file.name = "zip" THEN
        IF file.inner = "csv" THEN ParseOk(parse_float_control(file.records))
        ELSE ParseErr
    ELSE IF file.name = "csv" THEN ParseOk(parse_float_control(file.records))
    ELSE IF file.name = "json" THEN ParseOk(parse_floaty(file.json))
    ELSE ParseErr

----------------------------------------------------------------------------
(* The input files the runs are drawn from *)

\* the columns of a Float Control record other than Time(s)
FcRows ==
    { [speed_kmh |-> Some(100000), speed_mph |-> None,
       current_field_weakening |-> None, temp_battery |-> 0],
      [speed_kmh |-> None, speed_mph |-> Some(100000),
       current_field_weakening |-> Some(50000), temp_battery |-> 250000] }

FcRecord(row, t) ==
    [ time_seconds |-> t,
      speed_kmh |-> row.speed_kmh, speed_mph |-> row.speed_mph,
      duty_cycle |-> Some(400000),
      voltage |-> 600000, current_battery |-> 30000, current_motor |-> 120000,
      current_field_weakening |-> row.current_field_weakening,
      temp_mosfet |-> 350000, temp_motor |-> 400000,
      temp_battery |-> row.temp_battery ]

FloatyRows == { Some(100000) }

FloatyRecord(speed, t) ==
    [ timestamp |-> t, speed |-> speed, duty_cycle |-> Some(400000),
      battery_volts |-> Some(600000), battery_current |-> Some(30000),
      motor_current |-> Some(120000), motor_temp |-> 400000,
      controller_temp |-> 350000 ]

\* time of the first record after the start of the log, and the gaps between
\* consecutive records, in milliseconds
FirstTimes == {0, 200}
Gaps == {200, 1500}

\* the non-decreasing time columns of at most MaxSamples records
RECURSIVE TimeColumns(_)
TimeColumns(n) ==
    IF n = 0 THEN { <<>> }
    ELSE IF n = 1 THEN { <<t>> : t \in FirstTimes }
    ELSE { Append(c, c[n - 1] + g) : c \in TimeColumns(n - 1), g \in Gaps }

Lengths == 0..MaxSamples

\* the columns of n records: the first two records are free, every later
\* record repeats the columns of the record two before it
RowColumns(n) ==
    { rows \in [1..n -> FcRows] : \A k \in 3..n : rows[k] = rows[k - 2] }

FcFiles(name, inner) ==
    UNION { { [name |-> name, inner |-> inner,
               records |-> [k \in 1..n |-> FcRecord(rows[k], times[k])]] :
              rows \in RowColumns(n), times \in TimeColumns(n) } :
            n \in Lengths }

\* the start_time of a Floaty log
StartTimes == {5000}

FloatyFiles ==
    UNION { { [name |-> "json", inner |-> "",
               json |-> [start_time |-> s,
                         logs |-> [k \in 1..n |->
                                     FloatyRecord(rows[k], s + times[k])]]] :
              rows \in [1..n -> FloatyRows], times \in TimeColumns(n),
              s \in StartTimes } :
            n \in Lengths }

InputFiles ==
    FcFiles("csv", "") \cup FloatyFiles
    \cup { f \in FcFiles("zip", "csv") : Len(f.records) <= 1 }
    \cup { [name |-> "zip", inner |-> "txt", records |-> <<>>],
           [name |-> "txt", inner |-> "", records |-> <<>>] }

\* the values given to --max-gap-seconds and to --rate
MaxGaps == {1000}
Rates == {30}
CellCounts == {15}

----------------------------------------------------------------------------
(* render.rs and render_frame: what one frame shows *)

\* format!("{:.2} <unit>", x): the number (or NaN) followed by the unit
Fmt(x, unit) == [text |-> x, unit |-> unit]

\* LabelValue::new
LabelValue(label, value) == [label |-> label, value |-> value]

\* Speedo::render at vertical offset y: returns (WIDTH, 250)
SpeedoBlock(title, value, min, max, step, position, y) ==
    [ kind |-> "Speedo", title |-> title, value |-> value, min |-> min,
      max |-> max, step |-> step, position |-> position, top |-> y,
      height |-> 250, rows |-> <<>> ]

\* ListBlock reporting the lines of its items only, not its title
ListBlockNoTitle(title, items, y) ==
    [ kind |-> "List", title |-> title, value |-> Fmt(NaN, ""), min |-> 0,
      max |-> 0, step |-> 0, position |-> NaN, top |-> y,
      height |-> 40 * Len(items), rows |-> items ]

\* List::render at vertical offset y: the title (40) and one line (40) per item
ListBlock(title, items, y) ==
    [ kind |-> "List", title |-> title, value |-> Fmt(NaN, ""), min |-> 0,
      max |-> 0, step |-> 0, position |-> NaN, top |-> y,
      height |-> 40 + 40 * Len(items), rows |-> items ]

\* Option::unwrap_or(f32::NAN)
UnwrapOrNaN(opt) == IF opt.some THEN F(opt.val) ELSE NaN

\* f32 division and product of two metric values (1/10000 fixed point)
FDiv(x, n) == IF x.nan \/ n = 0 THEN NaN ELSE F(x.val \div n)
FMul(x, y) == IF x.nan \/ y.nan THEN NaN ELSE F((x.val \div 100) * (y.val \div 100))

\* (x).round() as usize, as a whole number of units
RoundAsUsize(x) == IF x.nan THEN F(0) ELSE F(AsUsize(Round(x.val, 10000)) * 10000)

\* the blocks render_frame draws for one point, in drawing order
FrameBlocks(point, cell_count) ==
    LET y0 == 20
        speed == SpeedoBlock("Speed", Fmt(point.speed, "km/h"), 0, 60, 10,
                             point.speed, y0)
        y1 == y0 + speed.height
        duty == SpeedoBlock("Duty Cycle", Fmt(point.duty_cycle, "%"), 0, 100, 10,
                            point.duty_cycle, y1)
        y2 == y1 + duty.height
        motor == ListBlock("Motor",
                     << LabelValue("Current", Fmt(point.motor_current, "A")),
                        LabelValue("Field Weakening",
                                   Fmt(UnwrapOrNaN(point.field_weakening), "A")) >>,
                     y2)
        y3 == y2 + motor.height
        temps == ListBlock("Temps",
                     << LabelValue("Motor", Fmt(point.temp_motor, "C")),
                        LabelValue("Controller", Fmt(point.temp_mosfet, "C")) >>,
                     y3)
        y4 == y3 + temps.height
        power == ListBlock("Power",
                     << LabelValue("Voltage (per cell)",
                                   Fmt(FDiv(point.batt_voltage, cell_count), "V")),
                        LabelValue("Voltage", Fmt(point.batt_voltage, "V")),
                        LabelValue("Current", Fmt(point.batt_current, "A")),
                        LabelValue("Wattage",
                                   Fmt(RoundAsUsize(FMul(point.batt_voltage,
                                                         point.batt_current)),
                                       "W")) >>,
                     y4)
    IN  << speed, duty, motor, temps, power >>

\* a surface: the sample it was drawn for (-1: none), the blocks on it, and
\* the block whose drawing failed (0: none; the blocks before it are drawn)
Surface(index, blocks, failed_at) ==
    [index |-> index, blocks |-> blocks, failed_at |-> failed_at]

Blank == Surface(-1, <<>>, 0)

\* a render_frame whose failure leaves nothing of the sample on the surface
render_frame_discarded(index, point, cell_count, fail) ==
    IF fail = 0 THEN Surface(index, FrameBlocks(point, cell_count), 0)
    ELSE Blank

\* render_frame: clear, then draw block after block; `fail` is the block whose
\* render returned Err (0: none did)
render_frame(index, point, cell_count, fail) ==
    LET all == FrameBlocks(point, cell_count)
    IN  IF fail = 0 THEN Surface(index, all, 0)
        ELSE Surface(index, SubSeq(all, 1, fail - 1), fail)

\* the blocks whose drawing is made to fail: the first gauge (nothing is
\* drawn yet) and the Temps list (the gauges and the Motor list are drawn)
FailBlocks == {1, 4}

----------------------------------------------------------------------------
(* Speedo::render: the geometry of one gauge *)

\* f64 division a / b: a number, or +-inf (a # 0, b = 0), or NaN (0 / 0)
Ratio(a, b) ==
    IF b = 0 THEN [kind |-> IF a = 0 THEN "nan" ELSE "inf", num |-> 0, den |-> 0]
    ELSE [kind |-> "num", num |-> a, den |-> b]

\* arc_start_angle + (arc_end_angle - arc_start_angle) * r, with
\* arc_start_angle = PI and arc_end_angle = 0; the angle is num/den of PI
SweepAngle(r) ==
    IF r.kind = "num" THEN [kind |-> "num", num |-> r.den - r.num, den |-> r.den]
    ELSE r

\* (total / self.step).floor() as i32, for step > 0
NumTicks(total, step) == total \div step

\* the needle: PI - PI * (position / total); `min` is not subtracted
NeedleAngle(g) == SweepAngle(Ratio(g.position, g.max - g.min))

\* the tick of index i: PI - PI * (i / num_ticks)
TickAngle(i, num_ticks) == SweepAngle(Ratio(i, num_ticks))

\* Speedo::render returning Ok((WIDTH, 250)): the ticks drawn by
\* `for i in 0..=num_ticks` (none when num_ticks < 0) and the needle
SpeedoRender(g) ==
    LET num_ticks == NumTicks(g.max - g.min, g.step)
    IN  [ result |-> "ok",
          num_ticks |-> num_ticks,
          ticks |-> [k \in 1..(num_ticks + 1) |-> TickAngle(k - 1, num_ticks)],
          needle |-> <<NeedleAngle(g)>>,
          size |-> <<WIDTH, 250>> ]

\* Speedo::render returning Err (a font render or a texture creation failed)
SpeedoErr ==
    [ result |-> "err", num_ticks |-> 0, ticks |-> <<>>, needle |-> <<>>,
      size |-> <<0, 0>> ]

NoGauge == [min |-> 0, max |-> 0, step |-> 0, position |-> 0]
NoGeometry ==
    [ result |-> "none", num_ticks |-> 0, ticks |-> <<>>, needle |-> <<>>,
      size |-> <<0, 0>> ]

\* the gauges laid out: Speedo's fields are public, any range can be asked for
GaugeMins == {0, 10, 60}
GaugeMaxs == {50, 60, 100}
GaugeSteps == {10, 20, 70}
GaugePositions == {0, 10, 25, 30, 50}

----------------------------------------------------------------------------
(* main *)

\* the body of the loop before rendering: the hold duration and num_frames
HoldDuration(point, max_gap_seconds) == Min(point.duration, max_gap_seconds)

\* NumFrames without the max-gap cap
NumFramesUncapped(point, max_gap_seconds, rate) ==
    AsUsize(Round(point.duration * rate, 1000))

NumFrames(point, max_gap_seconds, rate) ==
    AsUsize(Round(HoldDuration(point, max_gap_seconds) * rate, 1000))

\* the command lines: the two options are given together or both left out
CommandLines ==
    { [ input |-> f, max_gap_seconds |-> g, rate |-> r, cell_count |-> c ] :
        f \in InputFiles, c \in CellCounts,
        <<g, r>> \in {<<None, None>>}
                      \cup {<<Some(x), Some(y)>> : x \in MaxGaps, y \in Rates} }

UnwrapOr(opt, default) == IF opt.some THEN opt.val ELSE default

\* Args::parse: an absent --max-gap-seconds is 2.0, an absent --rate is 30.0
ArgsParse(cl) ==
    [ input |-> cl.input,
      max_gap_seconds |-> UnwrapOr(cl.max_gap_seconds, 2000),
      rate |-> UnwrapOr(cl.rate, 30),
      cell_count |-> cl.cell_count ]

Init ==
    /\ argv \in CommandLines
    /\ args = ArgsParse(argv)
    /\ pc = "parse"
    /\ data = <<>>
    /\ idx = 0
    /\ num_frames = 0
    /\ written = 0
    /\ texture = Blank
    /\ canvas = Blank
    /\ pixel_data = Blank
    /\ stream = <<>>
    /\ ops = <<>>
    /\ log = <<>>
    /\ ffmpeg = "none"
    /\ exit_status = -1
    /\ stdin_open = FALSE
    /\ result = "none"
    /\ error = ""
    /\ gauge = NoGauge
    /\ geometry = NoGeometry
    /\ pipe = 0
    /\ sent = 0

\* `?` or bail!: main returns Err; every local is dropped, and dropping the
\* Child closes its stdin handle but neither kills nor waits for the process
Bail(cause) ==
    /\ pc' = "done"
    /\ result' = "err"
    /\ error' = cause
    /\ stdin_open' = FALSE

\* let data = input::parse(&args.input)?;
Parse ==
    /\ pc = "parse"
    /\ LET r == parse(args.input)
       IN  IF r.ok
           THEN /\ data' = r.data
                /\ pc' = "check_empty"
                /\ UNCHANGED <<result, error, stdin_open>>
           ELSE /\ Bail("parse")
                /\ UNCHANGED data
    /\ UNCHANGED <<args, idx, num_frames, written, texture, canvas, pixel_data,
                   stream, ops, log, ffmpeg, exit_status>>
    /\ UNCHANGED aux

\* IsEmpty never reporting an empty dataset
IsEmptyNever(d) == FALSE

\* if data.is_empty() { bail!(..) }
IsEmpty(d) == Len(d) = 0

CheckEmpty ==
    /\ pc = "check_empty"
    /\ IF IsEmpty(data)
       THEN Bail("empty")
       ELSE /\ pc' = "setup"
            /\ UNCHANGED <<result, error, stdin_open>>
    /\ UNCHANGED <<args, data, idx, num_frames, written, texture, canvas,
                   pixel_data, stream, ops, log, ffmpeg, exit_status>>
    /\ UNCHANGED aux

\* sdl2::init .. load_font: the window, the canvas, the texture and the fonts
Setup ==
    /\ pc = "setup"
    /\ pc' = "spawn"
    /\ UNCHANGED <<args, data, idx, num_frames, written, texture, canvas,
                   pixel_data, stream, ops, log, ffmpeg, exit_status,
                   stdin_open, result, error>>
    /\ UNCHANGED aux

SetupFails ==
    /\ pc = "setup"
    /\ Bail("setup")
    /\ UNCHANGED <<args, data, idx, num_frames, written, texture, canvas,
                   pixel_data, stream, ops, log, ffmpeg, exit_status>>
    /\ UNCHANGED aux

\* Command::new("ffmpeg") .. .stdin(Stdio::piped()).spawn()?
Spawn ==
    /\ pc = "spawn"
    /\ ffmpeg' = "running"
    /\ stdin_open' = TRUE
    /\ pc' = "loop"
    /\ UNCHANGED <<args, data, idx, num_frames, written, texture, canvas,
                   pixel_data, stream, ops, log, exit_status, result, error>>
    /\ UNCHANGED aux

SpawnFails ==
    /\ pc = "spawn"
    /\ Bail("spawn")
    /\ UNCHANGED <<args, data, idx, num_frames, written, texture, canvas,
                   pixel_data, stream, ops, log, ffmpeg, exit_status>>
    /\ UNCHANGED aux

\* for point in data.iter(): the next point, its duration and num_frames; or
\* the end of the loop
LoopHead ==
    /\ pc = "loop"
    /\ IF idx < Len(data)
       THEN /\ num_frames' = NumFrames(data[idx + 1], args.max_gap_seconds,
                                       args.rate)
            /\ written' = 0
            /\ pc' = "render"
       ELSE /\ pc' = "wait"
            /\ UNCHANGED <<num_frames, written>>
    /\ UNCHANGED <<args, data, idx, texture, canvas, pixel_data, stream, ops,
                   log, ffmpeg, exit_status, stdin_open, result, error>>
    /\ UNCHANGED aux

\* canvas.with_texture_canvas(.., |c| { if let Err(e) = render_frame(..) {
\* eprintln!(..) } })?  with render_frame returning Ok
Render ==
    /\ pc = "render"
    /\ texture' = render_frame(idx, data[idx + 1], args.cell_count, 0)
    /\ ops' = Append(ops, [op |-> "render", index |-> idx])
    /\ pc' = "copy"
    /\ UNCHANGED <<args, data, idx, num_frames, written, canvas, pixel_data,
                   stream, log, ffmpeg, exit_status, stdin_open, result, error>>
    /\ UNCHANGED aux

\* .. with render_frame returning Err while drawing block `fail`: the error
\* is printed and the closure returns normally
OnRenderErrorAbort(failed) == [pc |-> "done", result |-> "err", log |-> Append(log, failed)]

OnRenderError(failed) == [pc |-> "copy", result |-> "none", log |-> Append(log, failed)]

RenderFails ==
    /\ pc = "render"
    /\ \E fail \in FailBlocks :
         texture' = render_frame(idx, data[idx + 1], args.cell_count, fail)
    /\ ops' = Append(ops, [op |-> "render", index |-> idx])
    /\ LET h == OnRenderError(idx)
       IN  /\ pc' = h.pc
           /\ result' = h.result
           /\ log' = h.log
    /\ UNCHANGED <<args, data, idx, num_frames, written, canvas, pixel_data,
                   stream, ffmpeg, exit_status, stdin_open, error>>
    /\ UNCHANGED aux

\* with_texture_canvas itself returns Err (the render target cannot be set)
TextureCanvasFails ==
    /\ pc = "render"
    /\ Bail("texture")
    /\ UNCHANGED <<args, data, idx, num_frames, written, texture, canvas,
                   pixel_data, stream, ops, log, ffmpeg, exit_status>>
    /\ UNCHANGED aux

\* Copy leaving the window canvas as it was
CopyNothing ==
    /\ pc = "copy"
    /\ canvas' = canvas
    /\ pc' = "read"
    /\ UNCHANGED <<args, data, idx, num_frames, written, texture, pixel_data,
                   stream, ops, log, ffmpeg, exit_status, stdin_open, result,
                   error>>
    /\ UNCHANGED aux

\* canvas.copy(&texture, None, None)?
Copy ==
    /\ pc = "copy"
    /\ canvas' = texture
    /\ pc' = "read"
    /\ UNCHANGED <<args, data, idx, num_frames, written, texture, pixel_data,
                   stream, ops, log, ffmpeg, exit_status, stdin_open, result, error>>
    /\ UNCHANGED aux

CopyFails ==
    /\ pc = "copy"
    /\ Bail("copy")
    /\ UNCHANGED <<args, data, idx, num_frames, written, texture, canvas,
                   pixel_data, stream, ops, log, ffmpeg, exit_status>>
    /\ UNCHANGED aux

\* let pixel_data = &canvas.read_pixels(None, pixel_format)?;
ReadPixels ==
    /\ pc = "read"
    /\ pixel_data' = canvas
    /\ ops' = Append(ops, [op |-> "read", index |-> canvas.index])
    /\ pc' = "write"
    /\ UNCHANGED <<args, data, idx, num_frames, written, texture, canvas,
                   stream, log, ffmpeg, exit_status, stdin_open, result, error>>
    /\ UNCHANGED aux

ReadPixelsFails ==
    /\ pc = "read"
    /\ Bail("read_pixels")
    /\ UNCHANGED <<args, data, idx, num_frames, written, texture, canvas,
                   pixel_data, stream, ops, log, ffmpeg, exit_status>>
    /\ UNCHANGED aux

\* one iteration of `for _ in 0..num_frames { ffmpeg_stdin.write_all(..)?; }`
FrameWritten ==
    /\ stream' = Append(stream, pixel_data.index)
    /\ ops' = Append(ops, [op |-> "write", index |-> pixel_data.index])
    /\ written' = written + 1
    /\ UNCHANGED <<args, pc, data, idx, num_frames, texture, canvas,
                   pixel_data, log, ffmpeg, exit_status, stdin_open, result, error>>

Write ==
    /\ pc = "write"
    /\ written < num_frames
    /\ FrameWritten
    /\ UNCHANGED aux

\* write_all returns Err (the encoder has gone: broken pipe)
WriteFails ==
    /\ pc = "write"
    /\ written < num_frames
    /\ Bail("write")
    /\ UNCHANGED <<args, data, idx, num_frames, written, texture, canvas,
                   pixel_data, stream, ops, log, ffmpeg, exit_status>>
    /\ UNCHANGED aux

\* the end of the loop body
NextPoint ==
    /\ pc = "write"
    /\ written = num_frames
    /\ idx' = idx + 1
    /\ pc' = "loop"
    /\ UNCHANGED <<args, data, num_frames, written, texture, canvas,
                   pixel_data, stream, ops, log, ffmpeg, exit_status,
                   stdin_open, result, error>>
    /\ UNCHANGED aux

\* the status main returns once Child::wait has returned Ok(status)
AfterWait(status) == "ok"

ExitCodes == {0, 1}

\* ffmpeg.wait()?; Ok(())  -- Child::wait closes the child's stdin, then
\* waits for it to exit
Wait ==
    /\ pc = "wait"
    /\ \E status \in ExitCodes :
         /\ exit_status' = status
         /\ result' = AfterWait(status)
    /\ stdin_open' = FALSE
    /\ ffmpeg' = "reaped"
    /\ pc' = "done"
    /\ UNCHANGED <<args, data, idx, num_frames, written, texture, canvas,
                   pixel_data, stream, ops, log, error>>
    /\ UNCHANGED aux

\* Child::wait returns Err
WaitFails ==
    /\ pc = "wait"
    /\ Bail("wait")
    /\ UNCHANGED <<args, data, idx, num_frames, written, texture, canvas,
                   pixel_data, stream, ops, log, ffmpeg, exit_status>>
    /\ UNCHANGED aux

Next ==
    \/ Parse \/ CheckEmpty \/ Setup \/ SetupFails \/ Spawn \/ SpawnFails
    \/ LoopHead \/ Render \/ RenderFails \/ TextureCanvasFails
    \/ Copy \/ CopyFails \/ ReadPixels \/ ReadPixelsFails
    \/ Write \/ WriteFails \/ NextPoint \/ Wait \/ WaitFails

Spec == Init /\ [][Next]_vars

----------------------------------------------------------------------------
(* The pipe to the encoder: write_all seen chunk by chunk *)

\* the capacity of the pipe, and the size of one frame's pixel buffer, in
\* chunks: a frame is larger than the pipe
PipeCap == 2
FrameChunks == 3

\* the longest log of a run in which the pipe is followed
PipeSamples == 2

PipeFiles == {f \in FloatyFiles : Len(f.json.logs) <= PipeSamples}

PipeInit ==
    /\ Init
    /\ argv.input \in PipeFiles

\* a pipe that takes data however full it is
PipeHasRoomAlways == TRUE

\* write(2) on the blocking pipe behind ChildStdin takes data only while the
\* pipe has room; otherwise the calling thread sleeps in the call
PipeHasRoom == pipe < PipeCap

\* write_all puts one more chunk of pixel_data in the pipe, others to follow
WriteChunk ==
    /\ pc = "write"
    /\ written < num_frames
    /\ sent < FrameChunks - 1
    /\ PipeHasRoom
    /\ pipe' = pipe + 1
    /\ sent' = sent + 1
    /\ UNCHANGED main_vars
    /\ UNCHANGED <<gauge, geometry, argv>>

\* write_all puts the last chunk of pixel_data in the pipe and returns Ok
WriteLastChunk ==
    /\ pc = "write"
    /\ written < num_frames
    /\ sent = FrameChunks - 1
    /\ PipeHasRoom
    /\ pipe' = pipe + 1
    /\ sent' = 0
    /\ FrameWritten
    /\ UNCHANGED <<gauge, geometry, argv>>

\* ffmpeg reads a chunk from its standard input
Consume ==
    /\ ffmpeg = "running"
    /\ pipe > 0
    /\ pipe' = pipe - 1
    /\ UNCHANGED main_vars
    /\ UNCHANGED <<gauge, geometry, sent, argv>>

PipeNext ==
    \/ Parse \/ CheckEmpty \/ Setup \/ SetupFails \/ Spawn \/ SpawnFails
    \/ LoopHead \/ Render \/ RenderFails \/ TextureCanvasFails
    \/ Copy \/ CopyFails \/ ReadPixels \/ ReadPixelsFails
    \/ WriteChunk \/ WriteLastChunk \/ WriteFails \/ NextPoint
    \/ Wait \/ WaitFails \/ Consume

PipeSpec == PipeInit /\ [][PipeNext]_vars

----------------------------------------------------------------------------
(* One gauge laid out on its own *)

GaugeInit ==
    /\ gauge \in [ min : GaugeMins, max : GaugeMaxs, step : GaugeSteps,
                   position : GaugePositions ]
    /\ geometry = NoGeometry
    /\ pipe = 0
    /\ sent = 0
    /\ argv = [ input |-> [name |-> "txt", inner |-> "", records |-> <<>>],
                max_gap_seconds |-> None, rate |-> None, cell_count |-> 15 ]
    /\ args = ArgsParse(argv)
    /\ pc = "gauge"
    /\ data = <<>>
    /\ idx = 0
    /\ num_frames = 0
    /\ written = 0
    /\ texture = Blank
    /\ canvas = Blank
    /\ pixel_data = Blank
    /\ stream = <<>>
    /\ ops = <<>>
    /\ log = <<>>
    /\ ffmpeg = "none"
    /\ exit_status = -1
    /\ stdin_open = FALSE
    /\ result = "none"
    /\ error = ""

\* Speedo::render(ctx, position, y) returns Ok
GaugeRender ==
    /\ geometry = NoGeometry
    /\ geometry' = SpeedoRender(gauge)
    /\ UNCHANGED <<gauge, pipe, sent, argv>>
    /\ UNCHANGED main_vars

\* Speedo::render returns Err
GaugeRenderFails ==
    /\ geometry = NoGeometry
    /\ geometry' = SpeedoErr
    /\ UNCHANGED <<gauge, pipe, sent, argv>>
    /\ UNCHANGED main_vars

GaugeNext == GaugeRender \/ GaugeRenderFails

GaugeSpec == GaugeInit /\ [][GaugeNext]_vars

----------------------------------------------------------------------------
(* Properties *)

\* the number of copies of sample j's frame in the encoder's input
Copies(j) == Cardinality({k \in DOMAIN stream : stream[k] = j})

\* the samples whose loop body has run to its end
Completed == {j \in 0..(Len(data) - 1) : j < idx}

\* round(min(duration, max_gap) * rate), from the data point
Expected(j) ==
    LET d == data[j + 1].duration
        hold == IF d < args.max_gap_seconds THEN d ELSE args.max_gap_seconds
    IN  Round(hold * args.rate, 1000)

\* C1: in fixed-rate mode every sample's frame is written
\* round(min(duration, maxGap) * rate) times, and never more than
\* round(maxGap * rate) times.
C1_RepeatCount ==
    \A j \in 0..(Len(data) - 1) :
        LET n == Copies(j)
        IN  /\ n <= Round(args.max_gap_seconds * args.rate, 1000)
            /\ j \in Completed => n = Expected(j)

\* the example of the specification: durations [0, 1.5, 0.2], maxGap 2.0,
\* rate 30 give 0, 45 and 6 copies
C1_Witness ==
    /\ pc = "done" /\ result = "ok"
    /\ args.max_gap_seconds = 2000 /\ args.rate = 30
    /\ Len(data) = 3
    /\ <<data[1].duration, data[2].duration, data[3].duration>> = <<0, 1500, 200>>
    /\ <<Copies(0), Copies(1), Copies(2)>> = <<0, 45, 6>>

\* C1, second witness: a sample whose gap exceeds maxGap contributes exactly
\* round(maxGap * rate) frames
C1_WitnessCapped ==
    /\ pc = "done" /\ result = "ok"
    /\ \E j \in 0..(Len(data) - 1) :
         /\ data[j + 1].duration > args.max_gap_seconds
         /\ Copies(j) = Round(args.max_gap_seconds * args.rate, 1000)

\* what may follow what in the sequence of operations: a render is followed by
\* the read-back of the same sample, a read-back or a write by a write of the
\* same sample or by the render of the next
Follows(a, b) ==
    \/ a.op = "render" /\ b.op = "read" /\ b.index = a.index
    \/ a.op \in {"read", "write"} /\ b.op = "write" /\ b.index = a.index
    \/ a.op \in {"read", "write"} /\ b.op = "render" /\ b.index = a.index + 1

\* C2: frames reach the encoder in sample order (the stream never steps back
\* to an earlier sample), and per sample there is one render, then one
\* read-back, then its writes.  Stated on neighbours; the order of any two
\* operations follows by transitivity.
C2_SampleOrder ==
    /\ \A k \in 1..(Len(stream) - 1) : stream[k] <= stream[k + 1]
    /\ \A k \in 1..(Len(ops) - 1) : Follows(ops[k], ops[k + 1])
    /\ Len(ops) > 0 => ops[1] = [op |-> "render", index |-> 0]
    /\ Len(stream) > 0 => stream[1] >= 0 /\ stream[Len(stream)] < Len(data)

C2_Witness ==
    /\ pc = "done" /\ result = "ok"
    /\ Len(data) = 3
    /\ Copies(1) > 0 /\ Copies(2) > 0
    /\ stream[1] = 1 /\ stream[Len(stream)] = 2

\* the records of the input file
RecordsOf(file) ==
    IF file.name = "json" THEN file.json.logs ELSE file.records

EmptyInput == Len(RecordsOf(args.input)) = 0 /\ parse(args.input).ok

\* C3: an empty input dataset is fatal: the run never gets past the check,
\* ends with an error, and the encoder is never spawned.
C3_EmptyInputFatal ==
    EmptyInput =>
        /\ pc \in {"parse", "check_empty", "done"}
        /\ ffmpeg = "none"
        /\ ~stdin_open
        /\ pc = "done" => result = "err" /\ error = "empty"

C3_Witness ==
    /\ EmptyInput
    /\ args.input.name = "json"
    /\ pc = "done" /\ error = "empty"

\* sample j has been rendered
Rendered(j) == \E k \in DOMAIN ops : ops[k] = [op |-> "render", index |-> j]

\* C4: a render failure is logged, leaves the frames already written as they
\* are and does not end the run: the loop goes on with the same sample's
\* copy/read-back/writes and every later sample is rendered and written.
C4_RenderFailureRecoverable ==
    /\ [][Len(log') > Len(log) =>
            /\ log' = Append(log, idx)
            /\ stream' = stream
            /\ result' = "none" /\ pc' = "copy" /\ idx' = idx]_vars
    /\ [](\A j \in Completed :
            (\E f \in DOMAIN log : log[f] <= j)
                => Rendered(j) /\ Copies(j) = Expected(j))
    /\ [](pc = "done" /\ result = "ok" => Completed = 0..(Len(data) - 1))

\* the first of three renders failed; the two later samples were rendered and
\* written, and the run ended normally
C4_Witness ==
    /\ pc = "done" /\ result = "ok"
    /\ log = <<0>>
    /\ Len(data) = 3
    /\ Rendered(1) /\ Rendered(2)
    /\ Copies(1) > 0 /\ Copies(2) > 0

\* C5: the final status reflects whether any frame failed to render: a run in
\* which some render_frame returned Err ends with a failure status.
C5_StatusReflectsRenderFailures ==
    pc = "done" => (Len(log) > 0 => result = "err")

\* C6: once the encoder has been spawned, on every exit path its input pipe
\* is closed and the subprocess is waited on before the run ends.
C6_EncoderReleasedOnEveryExit ==
    pc = "done" /\ ffmpeg # "none" => ~stdin_open /\ ffmpeg = "reaped"

\* C7: a non-zero exit status of the encoder, a failure to spawn it and a
\* broken pipe during a write each end the run with an error.
C7_EncoderErrorsFatal ==
    pc = "done" =>
        /\ exit_status > 0 => result = "err"
        /\ error \in {"spawn", "write"} => result = "err"

\* the time column of the input, in milliseconds
TimeOf(file, k) ==
    IF file.name = "json" THEN file.json.logs[k].timestamp
    ELSE file.records[k].time_seconds

Decoded == pc # "parse" /\ error # "parse"

\* C8: every DataPoint's duration is the non-negative gap between its sample
\* and the previous one, and the first sample's duration is 0, for both
\* decoders.
C8_DurationIsGap ==
    Decoded =>
        \A k \in 1..Len(data) :
            /\ data[k].duration >= 0
            /\ data[k].duration =
                 IF k = 1 THEN 0
                 ELSE TimeOf(args.input, k) - TimeOf(args.input, k - 1)

\* a frame drawn to its end
Complete(s) == s.index >= 0 /\ s.failed_at = 0

\* the frame has a list titled `title` with a row labelled `label`
HasRow(s, title, label) ==
    \E b \in DOMAIN s.blocks :
        /\ s.blocks[b].kind = "List" /\ s.blocks[b].title = title
        /\ \E r \in DOMAIN s.blocks[b].rows : s.blocks[b].rows[r].label = label

\* some sample of the input has a nonzero battery temperature (a Floaty log
\* carries none)
SomeBatteryTemp ==
    /\ args.input.name # "json"
    /\ \E k \in DOMAIN args.input.records :
         args.input.records[k].temp_battery # 0

\* C9: battery-temperature gating is run-wide: the row is absent from every
\* frame when every sample reads 0 and present in every frame when at least
\* one sample reads nonzero.
C9_BatteryRowRunWide ==
    Complete(pixel_data) =>
        (HasRow(pixel_data, "Temps", "Battery") <=> SomeBatteryTemp)

\* C10: the Field Weakening row is in a frame's Motor section if and only if
\* the frame's sample carries a field-weakening value; it is never rendered
\* with a placeholder value.
C10_FieldWeakeningRow ==
    Complete(pixel_data) =>
        /\ HasRow(pixel_data, "Motor", "Field Weakening")
             <=> data[pixel_data.index + 1].field_weakening.some
        /\ \A b \in DOMAIN pixel_data.blocks :
             \A r \in DOMAIN pixel_data.blocks[b].rows :
                 pixel_data.blocks[b].rows[r].label = "Field Weakening"
                     => ~pixel_data.blocks[b].rows[r].value.text.nan

\* the sum of the heights the first n blocks reported
RECURSIVE SumHeights(_, _)
SumHeights(blocks, n) ==
    IF n = 0 THEN 0 ELSE SumHeights(blocks, n - 1) + blocks[n].height

\* every block starts where the block before it ends, and a list reports its
\* title (40) plus 40 per row
Stacked(s) ==
    /\ \A b \in 1..(Len(s.blocks) - 1) :
         s.blocks[b + 1].top = s.blocks[b].top + s.blocks[b].height
    /\ \A b \in DOMAIN s.blocks :
         s.blocks[b].kind = "List"
             => s.blocks[b].height = 40 + 40 * Len(s.blocks[b].rows)

\* C11 as stated: blocks are stacked without gaps or overlap and the total
\* scene height (the frame is HEIGHT high) equals the sum of the block heights.
C11_SceneHeightIsSumOfBlocks ==
    /\ Stacked(texture)
    /\ Complete(texture) =>
         SumHeights(texture.blocks, Len(texture.blocks)) = HEIGHT

\* C11 as amended: blocks are stacked without gaps or overlap below a top
\* margin of 20 (the first block starts at 20), and the frame height equals
\* that margin plus the sum of the block heights: the last block ends at HEIGHT.
C11_StackedBelowMargin ==
    /\ Stacked(texture)
    /\ Len(texture.blocks) > 0 => texture.blocks[1].top = 20
    /\ Complete(texture) =>
         LET n == Len(texture.blocks)
         IN  /\ 20 + SumHeights(texture.blocks, n) = HEIGHT
             /\ texture.blocks[n].top + texture.blocks[n].height = HEIGHT

C11_Witness ==
    /\ Complete(texture)
    /\ Len(texture.blocks) = 5
    /\ SumHeights(texture.blocks, 5) = 940
    /\ texture.blocks[5].top = 760

----------------------------------------------------------------------------
(* The gauge *)

\* Speedo::render has returned Ok for the gauge
LaidOut == geometry.result = "ok"

\* the angle a, a fraction of PI, is the number num/den of PI
IsAngle(a, num, den) ==
    /\ a.kind = "num"
    /\ a.num * den = num * a.den

\* C12: for every gauge with max > min and every value, the needle angle is
\* PI - PI * (value - min) / (max - min), that is (max - value) / (max - min)
\* of PI, also when min is not 0.
C12_NeedleAngle ==
    (LaidOut /\ gauge.max > gauge.min) =>
        IsAngle(geometry.needle[1], gauge.max - gauge.position,
                gauge.max - gauge.min)

\* C13: for every gauge and every step > 0, also a step larger than the
\* span, tickCount = floor((max - min) / step), tickCount + 1 ticks are drawn,
\* and tick i sits at the well-defined angle PI - PI * i / tickCount.
C13_TicksEvenlySpaced ==
    (LaidOut /\ gauge.max > gauge.min /\ gauge.step > 0) =>
        LET tickCount == (gauge.max - gauge.min) \div gauge.step
        IN  /\ geometry.num_ticks = tickCount
            /\ Len(geometry.ticks) = tickCount + 1
            /\ \A k \in DOMAIN geometry.ticks :
                 IsAngle(geometry.ticks[k], tickCount - (k - 1), tickCount)

\* C14: laying out a gauge whose span max - min is zero or negative fails
\* with an error; no geometry is produced and nothing is divided by the span.
C14_BadSpanRejected ==
    (geometry # NoGeometry /\ gauge.max <= gauge.min) =>
        /\ geometry.result = "err"
        /\ geometry.ticks = <<>>
        /\ geometry.needle = <<>>

----------------------------------------------------------------------------
(* The frame-rate option *)

\* --rate was left out: the mode the claim calls variable-frame-rate
RateAbsent == ~argv.rate.some

\* C15: when no frame rate is given each sample's frame is emitted exactly
\* once, in sample order (and a manifest lists N + 1 file/duration pairs for
\* N samples).  main has one output, the raw frame stream; the frames of a
\* finished run are counted there.
C15_VfrEmitsEachFrameOnce ==
    (RateAbsent /\ pc = "done" /\ result = "ok") =>
        /\ Len(stream) = Len(data)
        /\ \A j \in 0..(Len(data) - 1) : Copies(j) = 1

----------------------------------------------------------------------------
(* Decoding *)

\* the point's speed is the record's speed in km/h: the km/h column when
\* present, otherwise the mph column times 1.60934 (compared in 1/1000000)
SpeedInKmh(point, rec) ==
    IF rec.speed_kmh.some THEN point.speed = F(rec.speed_kmh.val)
    ELSE IF rec.speed_mph.some THEN
        /\ ~point.speed.nan
        /\ point.speed.val * 100 = (rec.speed_mph.val \div 1000) * 160934
    ELSE point.speed.nan

\* C16: decoding returns exactly one DataPoint per input record, in record
\* order, for CSV, zipped CSV and JSON inputs alike, and each point's speed
\* is in km/h: the record's km/h value when present, otherwise its mph value
\* multiplied by 1.60934 (a Floaty record's speed is taken as it is).
C16_OnePointPerRecord ==
    Decoded =>
        LET records == RecordsOf(args.input)
        IN  /\ Len(data) = Len(records)
            /\ \A k \in 1..Len(data) :
                 IF args.input.name = "json"
                 THEN data[k].speed = IF records[k].speed.some
                                      THEN F(records[k].speed.val) ELSE NaN
                 ELSE SpeedInKmh(data[k], records[k])

\* two records decoded, the first with a km/h column and the second with an
\* mph column only: 10 mph reads 16.0934 km/h
C16_Witness ==
    /\ Decoded
    /\ args.input.name = "csv"
    /\ Len(data) = 2
    /\ args.input.records[1].speed_kmh.some
    /\ ~args.input.records[2].speed_kmh.some
    /\ data[1].speed = F(100000)
    /\ data[2].speed = F(160934)

----------------------------------------------------------------------------
(* Backpressure *)

\* frame data handed over by the render loop and not yet consumed by the
\* encoder: what is in the pipe, and the rest of the buffer being written
Pending ==
    pipe + (IF pc = "write" /\ written < num_frames
            THEN FrameChunks - sent ELSE 0)

\* C17: writes to the encoder's pipe apply backpressure: the producer waits
\* in the write until the encoder has consumed data, so the frame data
\* pending between the render loop and the encoder never exceeds the pipe's
\* capacity plus the one frame buffer being written.
C17_Backpressure ==
    /\ pipe <= PipeCap
    /\ Pending <= PipeCap + FrameChunks
    /\ Len(stream) * FrameChunks + sent >= pipe

\* the producer is held in write_all: the pipe is full in the middle of a
\* frame, after earlier frames went through
C17_Witness ==
    /\ pc = "write"
    /\ written > 0
    /\ written < num_frames
    /\ sent > 0
    /\ pipe = PipeCap
    /\ ~ENABLED WriteChunk
    /\ ~ENABLED WriteLastChunk

----------------------------------------------------------------------------
(* The frames of a sample whose render failed *)

\* render_frame returned Err for sample j
Failed(j) == \E f \in DOMAIN log : log[f] = j

\* s is sample j's surface as a failed render left it: cleared, then the
\* blocks before the failing one drawn
LeftByFailure(s, j) ==
    /\ s.index = j
    /\ s.failed_at \in FailBlocks
    /\ s.blocks = SubSeq(FrameBlocks(data[j + 1], args.cell_count),
                         1, s.failed_at - 1)

\* C18: the number of frames written for a sample does not depend on whether
\* its render succeeded: when render_frame fails for a sample, the surface as
\* the failed render left it is still read back and written
\* round(min(duration, max_gap) * rate) times.
C18_FailedFrameStillWritten ==
    /\ (pc = "write" /\ Failed(idx)) =>
          /\ pixel_data = texture
          /\ LeftByFailure(pixel_data, idx)
          /\ num_frames = Expected(idx)
          /\ Copies(idx) = written
    /\ pc = "done" =>
          \A j \in Completed : Failed(j) => Copies(j) = Expected(j)

\* a sample whose render stopped at the Temps list has had all its frames
\* written, the two gauges and the Motor list on each of them
C18_Witness ==
    /\ pc = "write"
    /\ Failed(idx)
    /\ pixel_data.failed_at = 4
    /\ Len(pixel_data.blocks) = 3
    /\ num_frames > 1
    /\ written = num_frames

====
